---------------------------- MODULE Spec2Model ----------------------------
(***************************************************************************)
(* Model of cli/cook/subcommands/tail.py: the backward tailer              *)
(* (tail_backwards), the forward follower (tail_follow) and their driver   *)
(* (tail_for_instance), reading an append-only remote file through the     *)
(* Mesos agent's files/read endpoint.                                      *)
(*                                                                         *)
(* Text is a sequence of one-character strings.  The chunk size            *)
(* (CHUNK_SIZE, 4096 in the source) is the variable CHUNK_SIZE, drawn from *)
(* 1..MaxWindow, so that windows do not align with line boundaries on      *)
(* small files.                                                            *)
(***************************************************************************)
EXTENDS Integers, Sequences, FiniteSets, TLC

\* ------------------------------------------------------------------ bounds
MaxLen == 3
MaxWindow == 3
MaxLines == 3
MaxAppend == 2

\* --------------------------------------------------------------- constants
LINE_DELIMITER == "\n"

Alphabet == {"a", LINE_DELIMITER}

\* The statuses the agent may answer with.
Statuses == {200, 204, 404, 500}

\* Python's None, for an argument of read_file that is absent.
None == -1

VARIABLES
    uuids,                \* tail: strip_all(args.get('uuid'))
    paths,                \* tail: strip_all(args.get('path'))
    file,                 \* the remote file's content (append-only)
    CHUNK_SIZE,           \* the window size
    num_lines_to_print,   \* --lines
    follow,               \* --follow
    pc,                   \* position of the single thread of control
    file_size,            \* tail_for_instance: read()['offset']
    offset,               \* tail_backwards: offset
    length,               \* tail_backwards: length
    partial_line_buffer,  \* tail_backwards: partial_line_buffer
    line_buffer,          \* tail_backwards: line_buffer
    follow_offset,        \* tail_follow: offset
    out,                  \* the output stream (stdout)
    writes,               \* history: the texts passed to __print, by whom
    reads,                \* history: the reads issued by tail_backwards
    stop,                 \* which stop condition ended tail_backwards
    err,                  \* the exception that ended the command, if any
    message,              \* the message of that exception
    error_log,            \* what logging.error has recorded
    request,              \* the parameters of the latest files/read request
    size_fetches,         \* history: the number of requests sent without
                          \* offset and without length
    resp_status           \* history: the status of the latest response

vars == <<uuids, paths, file, CHUNK_SIZE, num_lines_to_print, follow, pc, file_size,
          offset, length, partial_line_buffer, line_buffer, follow_offset,
          out, writes, reads, stop, err, message, error_log,
          request, size_fetches, resp_status>>

\* What a call of read_file changes besides its caller's locals.
io_vars == <<message, error_log, request, size_fetches, resp_status>>

\* ------------------------------------------------------------ pure helpers
Max(a, b) == IF a >= b THEN a ELSE b

Min(a, b) == IF a <= b THEN a ELSE b

\* All texts over Alphabet of length at most k.
TextsUpTo(k) == UNION {[1..m -> Alphabet] : m \in 0..k}

\* Python's s[a:b] for 0 <= a, on a sequence.
PySlice(s, a, b) == SubSeq(s, a + 1, Min(b, Len(s)))

\* Python's s[-k:] for k >= 0 (s[-0:] is the whole of s).
PyLast(s, k) == IF k = 0 THEN s ELSE SubSeq(s, Max(1, Len(s) - k + 1), Len(s))

HasDelimiter(s) == \E i \in 1..Len(s) : s[i] = LINE_DELIMITER

RECURSIVE Split_drop_empty(_)
\* Mutant: empty pieces are dropped.
Split_drop_empty(s) ==
    IF ~HasDelimiter(s)
    THEN (IF Len(s) = 0 THEN <<>> ELSE <<s>>)
    ELSE LET i == CHOOSE k \in 1..Len(s) :
                     /\ s[k] = LINE_DELIMITER
                     /\ \A j \in 1..(k - 1) : s[j] # LINE_DELIMITER
         IN  (IF i = 1 THEN <<>> ELSE <<SubSeq(s, 1, i - 1)>>)
                 \o Split_drop_empty(SubSeq(s, i + 1, Len(s)))

RECURSIVE Split(_)
\* str.split(LINE_DELIMITER): cuts at every delimiter, keeps empty pieces.
Split(s) ==
    IF ~HasDelimiter(s)
    THEN <<s>>
    ELSE LET i == CHOOSE k \in 1..Len(s) :
                     /\ s[k] = LINE_DELIMITER
                     /\ \A j \in 1..(k - 1) : s[j] # LINE_DELIMITER
         IN  <<SubSeq(s, 1, i - 1)>> \o Split(SubSeq(s, i + 1, Len(s)))

RECURSIVE Join(_)
\* LINE_DELIMITER.join(lines)
Join(lines) ==
    IF Len(lines) = 0 THEN <<>>
    ELSE IF Len(lines) = 1 THEN lines[1]
    ELSE lines[1] \o <<LINE_DELIMITER>> \o Join(Tail(lines))


RECURSIVE Concat(_)
\* The concatenation of a sequence of texts.
Concat(texts) ==
    IF Len(texts) = 0 THEN <<>> ELSE texts[1] \o Concat(Tail(texts))

\* ---------------------------------------------------------- the agent side
\* tail, line 157: the path tail_for_instance is given.
path == paths[1]

\* The sandbox directory query_unique_and_run hands to tail_for_instance.
sandbox_dir == "/sandbox"

\* os.path.join of a directory and a relative name.
os_path_join(dir, name) == <<dir, "/", name>>

\* The text of the agent's response when it answers with an error status.
AgentErrorText(status) == <<"agent says ", ToString(status)>>

\* Mutant: the offset is sent only when it is truthy (if offset:).
Params_truthy_offset(off, len) ==
    {<<"path", os_path_join(sandbox_dir, path)>>}
        \cup (IF off # None /\ off # 0 THEN {<<"offset", off>>} ELSE {})
        \cup (IF len # None THEN {<<"length", len>>} ELSE {})

\* Mutant: the length is sent only when it is truthy (if length:).
Params_truthy_length(off, len) ==
    {<<"path", os_path_join(sandbox_dir, path)>>}
        \cup (IF off # None THEN {<<"offset", off>>} ELSE {})
        \cup (IF len # None /\ len # 0 THEN {<<"length", len>>} ELSE {})

\* The request parameters read_file builds: a key is present only when its
\* argument is not None.
Params(off, len) ==
    {<<"path", os_path_join(sandbox_dir, path)>>}
        \cup (IF off # None THEN {<<"offset", off>>} ELSE {})
        \cup (IF len # None THEN {<<"length", len>>} ELSE {})

HasParam(params, key) == \E p \in params : p[1] = key

ParamValue(params, key) == (CHOOSE p \in params : p[1] = key)[2]

\* The body of a successful files/read response of the agent for content f:
\* without an offset, no data and the current size as "offset"; with an
\* offset, the bytes of [offset, offset + length) that exist.
AgentRead(f, params) ==
    IF ~HasParam(params, "offset")
    THEN [data |-> <<>>, offset |-> Len(f)]
    ELSE LET off == ParamValue(params, "offset")
             end == IF HasParam(params, "length")
                    THEN off + ParamValue(params, "length")
                    ELSE Len(f)
         IN  [data |-> PySlice(f, off, end), offset |-> off]

\* ------------------------------------------------------------- the program
\* Mutant: a 404 is not told apart from the other error statuses.
read_file_no_404(f, status, off, len) ==
    LET params == Params(off, len)
        body   == AgentRead(f, params)
    IN  IF status # 200
        THEN [exc |-> "agent_error", data |-> <<>>, offset |-> None,
              params |-> params,
              logged |-> <<<<"mesos agent returned status code ",
                             ToString(status), " and body ",
                             AgentErrorText(status)>>>>,
              msg |-> <<"Encountered error when reading file from Mesos agent.">>]
        ELSE [exc |-> "none", data |-> body.data, offset |-> body.offset,
              params |-> params, logged |-> <<>>, msg |-> <<>>]

\* Mutant: the error status and body are not logged.
read_file_not_logged(f, status, off, len) ==
    LET params == Params(off, len)
        body   == AgentRead(f, params)
    IN  IF status = 404
        THEN [exc |-> "not_found", data |-> <<>>, offset |-> None,
              params |-> params, logged |-> <<>>,
              msg |-> <<"Cannot open '", path,
                        "' for reading (file was not found).">>]
        ELSE IF status # 200
        THEN [exc |-> "agent_error", data |-> <<>>, offset |-> None,
              params |-> params, logged |-> <<>>,
              msg |-> <<"Encountered error when reading file from Mesos agent.">>]
        ELSE [exc |-> "none", data |-> body.data, offset |-> body.offset,
              params |-> params, logged |-> <<>>, msg |-> <<>>]

\* Mutant: every 2xx status counts as a success.
read_file_2xx_ok(f, status, off, len) ==
    LET params == Params(off, len)
        body   == AgentRead(f, params)
    IN  IF status = 404
        THEN [exc |-> "not_found", data |-> <<>>, offset |-> None,
              params |-> params, logged |-> <<>>,
              msg |-> <<"Cannot open '", path,
                        "' for reading (file was not found).">>]
        ELSE IF status \notin 200..299
        THEN [exc |-> "agent_error", data |-> <<>>, offset |-> None,
              params |-> params,
              logged |-> <<<<"mesos agent returned status code ",
                             ToString(status), " and body ",
                             AgentErrorText(status)>>>>,
              msg |-> <<"Encountered error when reading file from Mesos agent.">>]
        ELSE [exc |-> "none", data |-> body.data, offset |-> body.offset,
              params |-> params, logged |-> <<>>, msg |-> <<>>]

\* read_file: the exception it raises ("none" when it returns) and the parsed
\* body it returns.
read_file(f, status, off, len) ==
    LET params == Params(off, len)
        body   == AgentRead(f, params)
    IN  IF status = 404
        THEN [exc |-> "not_found", data |-> <<>>, offset |-> None,
              params |-> params, logged |-> <<>>,
              msg |-> <<"Cannot open '", path,
                        "' for reading (file was not found).">>]
        ELSE IF status # 200
        THEN [exc |-> "agent_error", data |-> <<>>, offset |-> None,
              params |-> params,
              logged |-> <<<<"mesos agent returned status code ",
                             ToString(status), " and body ",
                             AgentErrorText(status)>>>>,
              msg |-> <<"Encountered error when reading file from Mesos agent.">>]
        ELSE [exc |-> "none", data |-> body.data, offset |-> body.offset,
              params |-> params, logged |-> <<>>, msg |-> <<>>]

\* Mutant: print's default end, a newline, is kept.
__print_newline(stream, text) == stream \o text \o <<"\n">>

\* __print = partial(print, flush=True, end=''): the stream after the write.
__print(stream, text) == stream \o text

\* print_lines: the text it passes to __print.
print_lines(lines) == Join(lines)

\* Mutant: the extra entry for a trailing empty line is forgotten.
check_enough_lines_read_no_extra(lb, n) ==
    LET last_line_empty     == lb[Len(lb)] = <<>>
        num_lines_printable == Len(lb) - (IF last_line_empty THEN 1 ELSE 0)
    IN  IF Len(lb) > 0 /\ num_lines_printable >= n
        THEN [ret |-> TRUE, printed |-> <<print_lines(PyLast(lb, n))>>]
        ELSE [ret |-> FALSE, printed |-> <<>>]

\* Mutant: the printable count must exceed the requested count.
check_enough_lines_read_strict(lb, n) ==
    LET last_line_empty     == lb[Len(lb)] = <<>>
        num_lines_printable == Len(lb) - (IF last_line_empty THEN 1 ELSE 0)
        k                   == IF last_line_empty THEN n + 1 ELSE n
    IN  IF Len(lb) > 0 /\ num_lines_printable > n
        THEN [ret |-> TRUE, printed |-> <<print_lines(PyLast(lb, k))>>]
        ELSE [ret |-> FALSE, printed |-> <<>>]

\* Mutant: the lines buffered so far are printed in every iteration.
check_enough_lines_read_eager(lb, n) ==
    LET last_line_empty     == lb[Len(lb)] = <<>>
        num_lines_printable == Len(lb) - (IF last_line_empty THEN 1 ELSE 0)
        k                   == IF last_line_empty THEN n + 1 ELSE n
    IN  IF Len(lb) > 0 /\ num_lines_printable >= n
        THEN [ret |-> TRUE, printed |-> <<print_lines(PyLast(lb, k))>>]
        ELSE [ret |-> FALSE, printed |-> <<print_lines(lb)>>]

\* Mutant: a trailing empty entry is counted as a line.
check_enough_lines_read_count_empty(lb, n) ==
    LET last_line_empty == lb[Len(lb)] = <<>>
        k               == IF last_line_empty THEN n + 1 ELSE n
    IN  IF Len(lb) > 0 /\ Len(lb) >= n
        THEN [ret |-> TRUE, printed |-> <<print_lines(PyLast(lb, k))>>]
        ELSE [ret |-> FALSE, printed |-> <<>>]

\* Mutant: every buffered line is printed once enough lines are buffered.
check_enough_lines_read_all_buffered(lb, n) ==
    LET last_line_empty     == lb[Len(lb)] = <<>>
        num_lines_printable == Len(lb) - (IF last_line_empty THEN 1 ELSE 0)
    IN  IF Len(lb) > 0 /\ num_lines_printable >= n
        THEN [ret |-> TRUE, printed |-> <<print_lines(lb)>>]
        ELSE [ret |-> FALSE, printed |-> <<>>]

\* Mutant: the partial line is counted as a line.
check_enough_lines_read_count_partial(lb, n) ==
    LET last_line_empty     == lb[Len(lb)] = <<>>
        num_lines_printable == Len(lb) - (IF last_line_empty THEN 1 ELSE 0)
        k                   == IF last_line_empty THEN n + 1 ELSE n
    IN  IF Len(lb) > 0 /\ num_lines_printable + 1 >= n
        THEN [ret |-> TRUE, printed |-> <<print_lines(PyLast(lb, k))>>]
        ELSE [ret |-> FALSE, printed |-> <<>>]

\* Mutant: the last entry is never counted, empty or not.
check_enough_lines_read_skip_last(lb, n) ==
    LET last_line_empty     == lb[Len(lb)] = <<>>
        num_lines_printable == Len(lb) - 1
        k                   == IF last_line_empty THEN n + 1 ELSE n
    IN  IF Len(lb) > 0 /\ num_lines_printable >= n
        THEN [ret |-> TRUE, printed |-> <<print_lines(PyLast(lb, k))>>]
        ELSE [ret |-> FALSE, printed |-> <<>>]

\* check_enough_lines_read: its return value and the texts it prints.
check_enough_lines_read(lb, n) ==
    LET num_lines_buffered  == Len(lb)
        last_line_empty     == lb[Len(lb)] = <<>>
        num_lines_printable == num_lines_buffered - (IF last_line_empty THEN 1 ELSE 0)
        k                   == IF last_line_empty THEN n + 1 ELSE n
    IN  IF num_lines_buffered > 0 /\ num_lines_printable >= n
        THEN [ret |-> TRUE, printed |-> <<print_lines(PyLast(lb, k))>>]
        ELSE [ret |-> FALSE, printed |-> <<>>]

\* Mutant: the delimiter after the first line is printed unconditionally.
check_start_of_file_always_delimiter(off, plb, lb) ==
    IF off = 0
    THEN [ret |-> TRUE, printed |-> <<plb, <<LINE_DELIMITER>>, print_lines(lb)>>]
    ELSE [ret |-> FALSE, printed |-> <<>>]

\* Mutant: the delimiter between the first line and the rest is left out.
check_start_of_file_no_delimiter(off, plb, lb) ==
    IF off = 0
    THEN [ret |-> TRUE,
          printed |-> IF Len(lb) > 0 THEN <<plb, print_lines(lb)>> ELSE <<plb>>]
    ELSE [ret |-> FALSE, printed |-> <<>>]

\* Mutant: the offset is not looked at.
check_start_of_file_any_offset(off, plb, lb) ==
    [ret |-> TRUE,
     printed |-> IF Len(lb) > 0
                 THEN <<plb, <<LINE_DELIMITER>>, print_lines(lb)>>
                 ELSE <<plb>>]

\* check_start_of_file: its return value and the texts it prints.
check_start_of_file(off, plb, lb) ==
    IF off = 0
    THEN [ret |-> TRUE,
          printed |-> IF Len(lb) > 0
                      THEN <<plb, <<LINE_DELIMITER>>, print_lines(lb)>>
                      ELSE <<plb>>]
    ELSE [ret |-> FALSE, printed |-> <<>>]

\* Mutant: the first offset is not clamped at 0.
first_offset_no_clamp(size, window) == size - window

\* tail_backwards, line 80: the first window's offset.
first_offset(size, window) == Max(size - window, 0)

\* Mutant: the first window always asks for a whole chunk.
first_length_chunk(size, off, window) == window

\* Mutant: the first window is one byte short.
first_length_short(size, off, window) == Max(size - off - 1, 0)

\* tail_backwards, line 81: the first window's length.
first_length(size, off, window) == size - off

\* Mutant: the walk moves back two chunks at a time.
new_offset_two_chunks(off, window) == Max(off - 2 * window, 0)

\* Mutant: the offset is not moved.
new_offset_same(off, window) == off

\* tail_backwards, line 109: the next window's offset.
new_offset(off, window) == Max(off - window, 0)

\* Mutant: every later window asks for a whole chunk.
new_length_chunk(off, noff, window) == window

\* tail_backwards, line 110: the next window's length.
new_length(off, noff, window) == off - noff

\* Mutant: the cursor is advanced by the length asked for.
follow_advance_window(off, data, window) == off + window

\* Mutant: the cursor is not advanced.
follow_advance_stuck(off, data, window) == off

\* tail_follow, line 124: the cursor after data came back.
follow_advance(off, data, window) == off + Len(data)

\* Mutant: the new lines are put behind the lines already buffered.
split_step_append(data, plb, lb) ==
    LET buf   == data \o plb
        lines == Split(buf)
    IN  IF Len(lines) > 1
        THEN [partial_line_buffer |-> PySlice(buf, 0, Len(lines[1])),
              line_buffer |-> lb \o Tail(lines)]
        ELSE [partial_line_buffer |-> buf, line_buffer |-> lb]

\* Mutant: the partial line buffer is not cut at the first delimiter.
split_step_no_cut(data, plb, lb) ==
    LET buf   == data \o plb
        lines == Split(buf)
    IN  IF Len(lines) > 1
        THEN [partial_line_buffer |-> buf, line_buffer |-> Tail(lines) \o lb]
        ELSE [partial_line_buffer |-> buf, line_buffer |-> lb]

\* tail_backwards, lines 91-98: the buffers after prepending data and
\* splitting.
split_step(data, plb, lb) ==
    LET buf   == data \o plb
        lines == Split(buf)
    IN  IF Len(lines) > 1
        THEN [partial_line_buffer |-> PySlice(buf, 0, Len(lines[1])),
              line_buffer |-> Tail(lines) \o lb]
        ELSE [partial_line_buffer |-> buf, line_buffer |-> lb]

\* tail_backwards, lines 85-111, as a function: the text written by the loop
\* entered at window (off, len) with the buffers plb and lb, on a file of
\* the given content whose reads all succeed.
RECURSIVE tail_backwards_loop(_, _, _, _, _, _, _)
tail_backwards_loop(content, off, len, plb, lb, window, n) ==
    LET data == read_file(content, 200, off, len).data
        s    == split_step(data, plb, lb)
        a    == check_enough_lines_read(s.line_buffer, n)
        b    == check_start_of_file(off, s.partial_line_buffer, s.line_buffer)
    IN  IF a.ret
        THEN Concat(a.printed)
        ELSE IF b.ret
        THEN Concat(a.printed \o b.printed)
        ELSE Concat(a.printed \o b.printed)
                 \o tail_backwards_loop(content, new_offset(off, window),
                                        new_length(off, new_offset(off, window),
                                                   window),
                                        s.partial_line_buffer, s.line_buffer,
                                        window, n)

\* tail_backwards, lines 74-111, as a function of the content, the window
\* size and the requested count: the text it writes.
tail_backwards(content, window, n) ==
    tail_backwards_loop(content, first_offset(Len(content), window),
                        first_length(Len(content),
                                     first_offset(Len(content), window), window),
                        <<>>, <<>>, window, n)

\* The stream and the history after printing texts in order.
RECURSIVE PrintAll(_, _)
PrintAll(stream, texts) ==
    IF Len(texts) = 0 THEN stream
    ELSE PrintAll(__print(stream, texts[1]), Tail(texts))

Tag(by, texts) == [i \in 1..Len(texts) |-> [by |-> by, text |-> texts[i]]]

\* -------------------------------------------------------------------- Init
Init ==
    /\ uuids \in {<<"uuid1">>, <<"uuid1", "uuid2">>}
    /\ paths \in {<<"stdout">>, <<"stdout", "stderr">>}
    /\ file \in TextsUpTo(MaxLen)
    /\ CHUNK_SIZE \in 1..MaxWindow
    /\ num_lines_to_print \in 1..MaxLines
    /\ follow \in BOOLEAN
    /\ pc = "tail"
    /\ file_size = None
    /\ offset = None
    /\ length = None
    /\ partial_line_buffer = <<>>
    /\ line_buffer = <<>>
    /\ follow_offset = None
    /\ out = <<>>
    /\ writes = <<>>
    /\ reads = <<>>
    /\ stop = "none"
    /\ err = "none"
    /\ message = <<>>
    /\ error_log = <<>>
    /\ request = {}
    /\ size_fetches = 0
    /\ resp_status = None

\* ----------------------------------------------------------------- actions
\* Mutant: the number of paths is not validated.
tail_no_path_check ==
    /\ pc = "tail"
    /\ IF Len(uuids) > 1
       THEN /\ pc' = "error"
            /\ err' = "invalid_argument"
            /\ message' = <<"You can only provide a single uuid.">>
       ELSE /\ pc' = "size"
            /\ UNCHANGED <<err, message>>
    /\ UNCHANGED <<uuids, paths, file, CHUNK_SIZE, num_lines_to_print, follow,
                   file_size, offset, length, partial_line_buffer, line_buffer,
                   follow_offset, out, writes, reads, stop,
                   error_log, request, size_fetches, resp_status>>

\* tail, lines 143-159: the defensive validation of the arguments, then
\* query_unique_and_run calls tail_for_instance.
tail ==
    /\ pc = "tail"
    /\ IF Len(uuids) > 1
       THEN /\ pc' = "error"
            /\ err' = "invalid_argument"
            /\ message' = <<"You can only provide a single uuid.">>
       ELSE IF Len(paths) > 1
       THEN /\ pc' = "error"
            /\ err' = "invalid_argument"
            /\ message' = <<"You can only provide a single path.">>
       ELSE /\ pc' = "size"
            /\ UNCHANGED <<err, message>>
    /\ UNCHANGED <<uuids, paths, file, CHUNK_SIZE, num_lines_to_print, follow,
                   file_size, offset, length, partial_line_buffer, line_buffer,
                   follow_offset, out, writes, reads, stop,
                   error_log, request, size_fetches, resp_status>>

\* What one call of read_file, answered with status, leaves behind: the
\* request sent, the error logged and the exception raised.
Called(r, status) ==
    /\ request' = r.params
    /\ size_fetches' = size_fetches
                          + (IF HasParam(r.params, "offset")
                                \/ HasParam(r.params, "length") THEN 0 ELSE 1)
    /\ resp_status' = status
    /\ error_log' = error_log \o r.logged
    /\ IF r.exc # "none"
       THEN /\ pc' = "error"
            /\ err' = r.exc
            /\ message' = r.msg
       ELSE UNCHANGED <<err, message>>

\* The remote file grows by one byte (the writer is another process), at any
\* point between the size fetch and the end of the command.  Growth before
\* the size fetch is covered by Init, which ranges over every content.
AppendByte ==
    /\ pc \notin {"tail", "size", "done", "error"}
    /\ Len(file) < file_size + MaxAppend
    /\ \E c \in Alphabet : file' = Append(file, c)
    /\ UNCHANGED <<uuids, paths, CHUNK_SIZE, num_lines_to_print, follow, pc,
                   file_size, offset, length, partial_line_buffer, line_buffer,
                   follow_offset, out, writes, reads, stop, err>>
    /\ UNCHANGED io_vars

\* tail_for_instance, line 135, and tail_backwards, lines 80-83.
SizeFetch ==
    /\ pc = "size"
    /\ \E status \in Statuses :
         LET r == read_file(file, status, None, None)
         IN  /\ Called(r, status)
             /\ IF r.exc # "none"
                THEN UNCHANGED <<file_size, offset, length>>
                ELSE /\ file_size' = r.offset
                     /\ offset' = first_offset(r.offset, CHUNK_SIZE)
                     /\ length' = first_length(r.offset,
                                               first_offset(r.offset, CHUNK_SIZE),
                                               CHUNK_SIZE)
                     /\ pc' = "bw_read"
    /\ UNCHANGED <<uuids, paths, file, CHUNK_SIZE, num_lines_to_print, follow,
                   partial_line_buffer, line_buffer, follow_offset, out, writes,
                   reads, stop>>

\* tail_backwards, lines 87-98: the read and the split of one iteration.
BackwardRead ==
    /\ pc = "bw_read"
    /\ \E status \in Statuses :
         LET r == read_file(file, status, offset, length)
             b == split_step(r.data, partial_line_buffer, line_buffer)
         IN  /\ reads' = Append(reads, [offset |-> offset, length |-> length,
                                        data |-> r.data, exc |-> r.exc])
             /\ Called(r, status)
             /\ IF r.exc # "none"
                THEN UNCHANGED <<partial_line_buffer, line_buffer>>
                ELSE /\ partial_line_buffer' = b.partial_line_buffer
                     /\ line_buffer' = b.line_buffer
                     /\ pc' = "bw_check"
    /\ UNCHANGED <<uuids, paths, file, CHUNK_SIZE, num_lines_to_print, follow,
                   file_size, offset, length, follow_offset, out, writes,
                   stop>>

\* Mutant: the follower starts at the file's end as it is when tail_backwards
\* returns.
AfterBackward_from_current_end ==
    IF follow
    THEN /\ pc' = "follow_read"
         /\ follow_offset' = Len(file)
    ELSE /\ pc' = "done"
         /\ UNCHANGED follow_offset

\* Mutant: the follower is started whether or not follow is set.
AfterBackward_always_follow ==
    /\ pc' = "follow_read"
    /\ follow_offset' = file_size

\* tail_for_instance, lines 137-138: where control goes when tail_backwards
\* returns.
AfterBackward ==
    IF follow
    THEN /\ pc' = "follow_read"
         /\ follow_offset' = file_size
    ELSE /\ pc' = "done"
         /\ UNCHANGED follow_offset

\* Mutant: the start of the file is checked before the number of lines.
BackwardCheck_start_first ==
    /\ pc = "bw_check"
    /\ LET a == check_enough_lines_read(line_buffer, num_lines_to_print)
           b == check_start_of_file(offset, partial_line_buffer, line_buffer)
           printed == IF b.ret THEN b.printed ELSE b.printed \o a.printed
       IN  /\ out' = PrintAll(out, printed)
           /\ writes' = writes \o Tag("tail_backwards", printed)
           /\ IF b.ret
              THEN /\ stop' = "B"
                   /\ AfterBackward
                   /\ UNCHANGED <<offset, length>>
              ELSE IF a.ret
              THEN /\ stop' = "A"
                   /\ AfterBackward
                   /\ UNCHANGED <<offset, length>>
              ELSE /\ offset' = new_offset(offset, CHUNK_SIZE)
                   /\ length' = new_length(offset, new_offset(offset, CHUNK_SIZE),
                                           CHUNK_SIZE)
                   /\ pc' = "bw_read"
                   /\ UNCHANGED <<stop, follow_offset>>
    /\ UNCHANGED <<uuids, paths, file, CHUNK_SIZE, num_lines_to_print, follow,
                   file_size, partial_line_buffer, line_buffer, reads, err>>
    /\ UNCHANGED io_vars

\* tail_backwards, lines 100-111: the stop conditions and the window update
\* of one iteration.
BackwardCheck ==
    /\ pc = "bw_check"
    /\ LET a == check_enough_lines_read(line_buffer, num_lines_to_print)
           b == check_start_of_file(offset, partial_line_buffer, line_buffer)
           \* check_start_of_file is called only when
           \* check_enough_lines_read returned False; each prints by itself.
           printed == IF a.ret THEN a.printed ELSE a.printed \o b.printed
       IN  /\ out' = PrintAll(out, printed)
           /\ writes' = writes \o Tag("tail_backwards", printed)
           /\ IF a.ret
              THEN /\ stop' = "A"
                   /\ AfterBackward
                   /\ UNCHANGED <<offset, length>>
              ELSE IF b.ret
              THEN /\ stop' = "B"
                   /\ AfterBackward
                   /\ UNCHANGED <<offset, length>>
              ELSE /\ offset' = new_offset(offset, CHUNK_SIZE)
                   /\ length' = new_length(offset, new_offset(offset, CHUNK_SIZE),
                                           CHUNK_SIZE)
                   /\ pc' = "bw_read"
                   /\ UNCHANGED <<stop, follow_offset>>
    /\ UNCHANGED <<uuids, paths, file, CHUNK_SIZE, num_lines_to_print, follow,
                   file_size, partial_line_buffer, line_buffer, reads, err>>
    /\ UNCHANGED io_vars

\* Mutant: a failed poll is logged and the loop goes on.
FollowRead_retry ==
    /\ pc = "follow_read"
    /\ \E status \in Statuses :
         LET r == read_file(file, status, follow_offset, CHUNK_SIZE)
         IN  /\ request' = r.params
             /\ resp_status' = status
             /\ error_log' = error_log \o r.logged
             /\ err' = IF r.exc # "none" THEN r.exc ELSE err
             /\ message' = IF r.exc # "none" THEN r.msg ELSE message
             /\ IF Len(r.data) > 0
                THEN /\ out' = __print(out, r.data)
                     /\ writes' = writes \o Tag("tail_follow", <<r.data>>)
                     /\ follow_offset' = follow_advance(follow_offset,
                                                        r.data, CHUNK_SIZE)
                ELSE UNCHANGED <<follow_offset, out, writes>>
             /\ pc' = "follow_sleep"
    /\ UNCHANGED <<uuids, paths, file, CHUNK_SIZE, num_lines_to_print, follow,
                   file_size, offset, length, partial_line_buffer, line_buffer,
                   reads, stop, size_fetches>>

\* Mutant: the loop ends when a poll finds no new data.
FollowRead_exit_at_end ==
    /\ pc = "follow_read"
    /\ \E status \in Statuses :
         LET r == read_file(file, status, follow_offset, CHUNK_SIZE)
         IN  /\ Called(r, status)
             /\ IF r.exc # "none"
                THEN UNCHANGED <<follow_offset, out, writes>>
                ELSE IF Len(r.data) > 0
                THEN /\ out' = __print(out, r.data)
                     /\ writes' = writes \o Tag("tail_follow", <<r.data>>)
                     /\ follow_offset' = follow_advance(follow_offset,
                                                        r.data, CHUNK_SIZE)
                     /\ pc' = "follow_sleep"
                ELSE /\ pc' = "done"
                     /\ UNCHANGED <<follow_offset, out, writes>>
    /\ UNCHANGED <<uuids, paths, file, CHUNK_SIZE, num_lines_to_print, follow,
                   file_size, offset, length, partial_line_buffer, line_buffer,
                   reads, stop>>

\* Mutant: a poll that found data is followed by the next read at once.
FollowRead_reread_on_data ==
    /\ pc = "follow_read"
    /\ \E status \in Statuses :
         LET r == read_file(file, status, follow_offset, CHUNK_SIZE)
         IN  /\ Called(r, status)
             /\ IF r.exc # "none"
                THEN UNCHANGED <<follow_offset, out, writes>>
                ELSE IF Len(r.data) > 0
                THEN /\ out' = __print(out, r.data)
                     /\ writes' = writes \o Tag("tail_follow", <<r.data>>)
                     /\ follow_offset' = follow_advance(follow_offset,
                                                        r.data, CHUNK_SIZE)
                     /\ pc' = "follow_read"
                ELSE /\ pc' = "follow_sleep"
                     /\ UNCHANGED <<follow_offset, out, writes>>
    /\ UNCHANGED <<uuids, paths, file, CHUNK_SIZE, num_lines_to_print, follow,
                   file_size, offset, length, partial_line_buffer, line_buffer,
                   reads, stop>>

\* Mutant: data is taken only when a full chunk came back.
FollowRead_full_chunks_only ==
    /\ pc = "follow_read"
    /\ \E status \in Statuses :
         LET r == read_file(file, status, follow_offset, CHUNK_SIZE)
         IN  /\ Called(r, status)
             /\ IF r.exc # "none"
                THEN UNCHANGED <<follow_offset, out, writes>>
                ELSE /\ IF Len(r.data) = CHUNK_SIZE
                        THEN /\ out' = __print(out, r.data)
                             /\ writes' = writes \o Tag("tail_follow", <<r.data>>)
                             /\ follow_offset' = follow_advance(follow_offset,
                                                                r.data, CHUNK_SIZE)
                        ELSE UNCHANGED <<follow_offset, out, writes>>
                     /\ pc' = "follow_sleep"
    /\ UNCHANGED <<uuids, paths, file, CHUNK_SIZE, num_lines_to_print, follow,
                   file_size, offset, length, partial_line_buffer, line_buffer,
                   reads, stop>>

\* tail_follow, lines 119-124: one poll.
FollowRead ==
    /\ pc = "follow_read"
    /\ \E status \in Statuses :
         LET r == read_file(file, status, follow_offset, CHUNK_SIZE)
             num_chars_read == Len(r.data)
         IN  /\ Called(r, status)
             /\ IF r.exc # "none"
                THEN UNCHANGED <<follow_offset, out, writes>>
                ELSE /\ IF num_chars_read > 0
                        THEN /\ out' = __print(out, r.data)
                             /\ writes' = writes \o Tag("tail_follow", <<r.data>>)
                             /\ follow_offset' = follow_advance(follow_offset,
                                                                r.data, CHUNK_SIZE)
                        ELSE UNCHANGED <<follow_offset, out, writes>>
                     /\ pc' = "follow_sleep"
    /\ UNCHANGED <<uuids, paths, file, CHUNK_SIZE, num_lines_to_print, follow,
                   file_size, offset, length, partial_line_buffer, line_buffer,
                   reads, stop>>

\* tail_follow, line 126: time.sleep(follow_sleep_seconds).
FollowSleep ==
    /\ pc = "follow_sleep"
    /\ pc' = "follow_read"
    /\ UNCHANGED <<uuids, paths, file, CHUNK_SIZE, num_lines_to_print, follow,
                   file_size, offset, length, partial_line_buffer, line_buffer,
                   follow_offset, out, writes, reads, stop, err>>
    /\ UNCHANGED io_vars

Next ==
    \/ tail
    \/ AppendByte
    \/ SizeFetch
    \/ BackwardRead
    \/ BackwardCheck
    \/ FollowRead
    \/ FollowSleep

Spec == Init /\ [][Next]_vars

\* The points of control of the command's single thread.
ControlPoints ==
    {"tail", "size", "bw_read", "bw_check", "follow_read", "follow_sleep",
     "done", "error"}

\* The thread has a step to take: it has neither returned nor raised.
Busy == pc \notin {"done", "error"}

\* Control moves on.  Every step of the thread moves it, and the writer of
\* the file never does.
Advance == Busy /\ pc' \in ControlPoints \ {pc}

\* The thread is always scheduled: a blocking read returns, a sleep ends, a
\* local step is taken.
FairSpec == Spec /\ WF_pc(Advance)


\* ------------------------------------------------- what the claims speak of
\* The content as it was at the size fetch (the file is append-only).
snapshot == SubSeq(file, 1, file_size)

\* The bytes at offsets >= file_size.
grown == SubSeq(file, file_size + 1, Len(file))

TextsBy(who) == SelectSeq(writes, LAMBDA w : w.by = who)

\* The text written by tail_backwards, and by tail_follow.
bw_text == Concat([i \in 1..Len(TextsBy("tail_backwards")) |->
                       TextsBy("tail_backwards")[i].text])

fw_text == Concat([i \in 1..Len(TextsBy("tail_follow")) |->
                       TextsBy("tail_follow")[i].text])

IsPrefix(p, t) == Len(p) <= Len(t) /\ SubSeq(t, 1, Len(p)) = p

EndsWithDelimiter(c) == Len(c) > 0 /\ c[Len(c)] = LINE_DELIMITER

\* The positions at which a line of c starts: the first byte, and each byte
\* that follows a delimiter.
LineStarts(c) == {i \in 1..Len(c) : i = 1 \/ c[i - 1] = LINE_DELIMITER}

\* The number of lines of c, a final unterminated fragment counting as one.
NumLines(c) == Cardinality(LineStarts(c))

\* The last n lines of c as they stand in c (all of c when it has no more).
LastLines(c, n) ==
    IF NumLines(c) <= n THEN c
    ELSE LET s == CHOOSE i \in LineStarts(c) :
                      Cardinality({j \in LineStarts(c) : j >= i}) = n
         IN  SubSeq(c, s, Len(c))

Stopped == stop # "none"

\* C1: once tail_backwards has stopped on a content that ends with the
\* delimiter and holds at least n lines, what it wrote is exactly the last n
\* lines of the content, each followed by its delimiter.
C1_TailTrailingDelimiter ==
    (Stopped /\ EndsWithDelimiter(snapshot)
             /\ NumLines(snapshot) >= num_lines_to_print)
        => /\ bw_text = LastLines(snapshot, num_lines_to_print)
           /\ EndsWithDelimiter(bw_text)
           /\ NumLines(bw_text) = num_lines_to_print

\* C1 witness: stop condition A fired after several windows on a content with
\* a trailing delimiter and more than n lines.
C1_Witness ==
    /\ stop = "A"
    /\ EndsWithDelimiter(snapshot)
    /\ NumLines(snapshot) > num_lines_to_print
    /\ Len(reads) >= 2
    /\ CHUNK_SIZE >= 2
    /\ \E i \in 1..Len(bw_text) : bw_text[i] # LINE_DELIMITER

\* C2: once tail_backwards has stopped on a non-empty content that does not
\* end with the delimiter and holds at least n lines, what it wrote is exactly
\* the last n lines joined by the delimiter, with no trailing delimiter.
C2_TailNoTrailingDelimiter ==
    (Stopped /\ Len(snapshot) > 0 /\ ~EndsWithDelimiter(snapshot)
             /\ NumLines(snapshot) >= num_lines_to_print)
        => /\ bw_text = LastLines(snapshot, num_lines_to_print)
           /\ ~EndsWithDelimiter(bw_text)
           /\ NumLines(bw_text) = num_lines_to_print

\* C2 witness: stop condition A fired after several windows on a content
\* without a trailing delimiter and with more than n lines.
C2_Witness ==
    /\ stop = "A"
    /\ Len(snapshot) > 0
    /\ ~EndsWithDelimiter(snapshot)
    /\ NumLines(snapshot) > num_lines_to_print
    /\ num_lines_to_print >= 2
    /\ Len(reads) >= 2

\* C3: once tail_backwards has stopped on a content with fewer lines than n,
\* it stopped through the start-of-file condition, at offset 0, and wrote the
\* whole content.
C3_ShortFile ==
    (Stopped /\ NumLines(snapshot) < num_lines_to_print)
        => /\ stop = "B"
           /\ offset = 0
           /\ bw_text = snapshot

\* C3 witness: a content of two lines, three requested, read in several
\* windows.
C3_Witness ==
    /\ stop = "B"
    /\ NumLines(snapshot) = 2
    /\ num_lines_to_print = 3
    /\ Len(reads) >= 2
    /\ Len(line_buffer) >= 1

\* C4: on a file of size 0 the first iteration stops through the
\* start-of-file condition and writes the empty string; the only error is a
\* failed read.
C4_EmptyFile ==
    (file_size = 0)
        => /\ Len(reads) <= 1
           /\ (Len(reads) = 1 => pc # "bw_read")
           /\ (pc = "bw_check" =>
                  /\ ~check_enough_lines_read(line_buffer, num_lines_to_print).ret
                  /\ check_start_of_file(offset, partial_line_buffer,
                                         line_buffer).ret)
           /\ (Stopped => stop = "B" /\ bw_text = <<>> /\ Len(reads) = 1)
           /\ ((pc = "error" /\ ~Stopped) => reads[1].exc # "none")

\* C4 witness: tail_backwards has returned from an empty file.
C4_Witness ==
    /\ file_size = 0
    /\ Stopped
    /\ pc = "done"

\* C5: whatever tail_follow has written is a prefix of the bytes appended
\* after offset file_size, its start offset, and its cursor stands right
\* after the last byte written: each byte is written at most once, in file
\* order, and no byte before the start offset is written.
C5_FollowMonotonic ==
    (follow_offset # None)
        => /\ IsPrefix(fw_text, grown)
           /\ follow_offset = file_size + Len(fw_text)

\* C5 witness: two polls have each written a byte; the two bytes differ and
\* were appended at different times.
C5_Witness ==
    /\ pc = "follow_sleep"
    /\ Len(TextsBy("tail_follow")) = 2
    /\ fw_text = grown
    /\ fw_text[1] # fw_text[2]

\* C6: with follow enabled, the whole output is the last-n-lines tail of the
\* content as it was at the size fetch, followed by a prefix of the bytes at
\* offsets >= file_size, whenever the appends happened.
C6_TailThenGrowth ==
    (Stopped /\ follow)
        => \E k \in 0..Len(grown) :
              out = LastLines(snapshot, num_lines_to_print) \o SubSeq(grown, 1, k)

\* C6 witness: two bytes appended at different times have been written, by
\* two polls, after the tail of a content that has more lines than requested
\* and took several windows to read.
C6_Witness ==
    /\ stop = "A"
    /\ Len(reads) >= 2
    /\ Len(grown) = 2
    /\ Len(TextsBy("tail_follow")) = 2
    /\ fw_text = grown
    /\ out # snapshot \o grown

\* The indices of reads, and the data of the reads of a set of indices in
\* file order (by offset, then by issue).
ReadIndices == 1..Len(reads)

RECURSIVE DataInFileOrder(_)
DataInFileOrder(is) ==
    IF is = {} THEN <<>>
    ELSE LET i == CHOOSE x \in is :
                      \A y \in is : \/ reads[x].offset < reads[y].offset
                                    \/ (reads[x].offset = reads[y].offset /\ x <= y)
         IN  reads[i].data \o DataInFileOrder(is \ {i})

LastRead == reads[Len(reads)]

\* C7 as stated: the bytes read by a finished walk, in file order, are the
\* whole content.
C7_Original ==
    Stopped => DataInFileOrder(ReadIndices) = snapshot

\* C7 as amended: the bytes read so far, in file order, are exactly the
\* content from the offset of the last read to file_size, with no gap and no
\* duplicate; they are the whole content when the walk has reached offset 0.
C7_ReadsReproduceSuffix ==
    (Len(reads) > 0 /\ LastRead.exc = "none")
        => /\ DataInFileOrder(ReadIndices)
                = SubSeq(snapshot, LastRead.offset + 1, file_size)
           /\ (LastRead.offset = 0 => DataInFileOrder(ReadIndices) = snapshot)

\* C7 witness: stop condition A fired above offset 0 after several reads, so
\* that only a proper suffix of the content was read.
C7_Witness ==
    /\ stop = "A"
    /\ offset > 0
    /\ Len(reads) >= 2
    /\ DataInFileOrder(ReadIndices) # snapshot

\* The byte indices a read asks for.
Range(r) == r.offset..(r.offset + r.length - 1)

\* C8: the first read ends at file_size, every later one ends where the one
\* before it starts, and no byte index is requested twice.
C8_DisjointAdjacentReads ==
    /\ \A i \in ReadIndices :
          /\ reads[i].offset >= 0
          /\ reads[i].length >= 0
          /\ reads[i].offset + reads[i].length
                = (IF i = 1 THEN file_size ELSE reads[i - 1].offset)
    /\ \A i, j \in ReadIndices : i # j => Range(reads[i]) \cap Range(reads[j]) = {}

\* C8 witness: several reads, the last one shorter than a chunk.
C8_Witness ==
    /\ Len(reads) >= 2
    /\ LastRead.length < CHUNK_SIZE
    /\ LastRead.length > 0
    /\ CHUNK_SIZE >= 2

Ceil(a, b) == (a + b - 1) \div b

\* C9 as stated: a finished walk made ceil(file_size / WINDOW) reads when it
\* stopped at offset 0, and fewer when it stopped above offset 0.
C9_Original ==
    Stopped => IF offset = 0
               THEN Len(reads) = Ceil(file_size, CHUNK_SIZE)
               ELSE Len(reads) < Ceil(file_size, CHUNK_SIZE)

\* C9 as amended: a finished walk made max(1, ceil(file_size / WINDOW)) reads
\* when it stopped at offset 0 (an empty file costs one zero-length read), and
\* at least one but fewer than ceil(file_size / WINDOW) when it stopped above
\* offset 0.
C9_ReadCount ==
    Stopped => IF offset = 0
               THEN Len(reads) = Max(1, Ceil(file_size, CHUNK_SIZE))
               ELSE /\ Len(reads) >= 1
                    /\ Len(reads) < Ceil(file_size, CHUNK_SIZE)

\* C9 witness: a walk of a file of several chunks that ended at offset 0, the
\* last chunk a partial one.
C9_Witness ==
    /\ Stopped
    /\ offset = 0
    /\ CHUNK_SIZE >= 2
    /\ file_size > CHUNK_SIZE
    /\ file_size % CHUNK_SIZE # 0

\* C10: nothing is written before a stop condition fires, so a command that
\* the size fetch or a read of the backward walk aborted has written nothing;
\* it ended with the error of the failed read.
C10_NoPartialOutput ==
    /\ ~Stopped => (out = <<>> /\ writes = <<>>)
    /\ (pc = "error") = (err # "none")
    /\ (pc = "error" /\ ~Stopped /\ Len(reads) > 0) => LastRead.exc = err
    /\ (pc = "error" /\ ~Stopped /\ resp_status # None)
          => err \in {"not_found", "agent_error"}

\* C10 witness: a read failed in the middle of the walk, with lines already
\* buffered.
C10_Witness ==
    /\ pc = "error"
    /\ ~Stopped
    /\ Len(reads) >= 2
    /\ Len(line_buffer) >= 1
    /\ err = "agent_error"

\* Whether the text msg names the string x.
Names(msg, x) == \E i \in 1..Len(msg) : msg[i] = x

\* C11: when the agent answers 404 to a read, the command ends with the
\* not-found error, whose message names the path that was asked for, and the
\* read has returned no data.
C11_NotFound ==
    (resp_status = 404)
        => /\ pc = "error"
           /\ err = "not_found"
           /\ Names(message, path)
           /\ message = <<"Cannot open '", path, "' for reading (file was not found).">>
           /\ (Len(reads) = 0 => file_size = None)
           /\ ((Len(reads) > 0 /\ ~Stopped) => LastRead.data = <<>>)

\* C11 witness: the file disappeared in the middle of the backward walk.
C11_Witness ==
    /\ resp_status = 404
    /\ ~Stopped
    /\ Len(reads) >= 2

IsSuccess(status) == status \in 200..299

\* C12 as stated: a non-success response other than 404 ends the command
\* with an error that carries the response's status and body.
C12_Original ==
    (resp_status # None /\ ~IsSuccess(resp_status) /\ resp_status # 404)
        => /\ pc = "error"
           /\ Names(message, ToString(resp_status))
           /\ Names(message, AgentErrorText(resp_status))

\* C12 as amended: a non-success response other than 404 ends the command
\* with an error whose message is fixed and carries neither the status nor
\* the body; the status and the body are written to the error log.
C12_AgentError ==
    (resp_status # None /\ ~IsSuccess(resp_status) /\ resp_status # 404)
        => /\ pc = "error"
           /\ err = "agent_error"
           /\ message = <<"Encountered error when reading file from Mesos agent.">>
           /\ Len(error_log) = 1
           /\ error_log[1] = <<"mesos agent returned status code ",
                               ToString(resp_status), " and body ",
                               AgentErrorText(resp_status)>>

\* C12 witness: the agent answered 500 to a read of the backward walk.
C12_Witness ==
    /\ resp_status = 500
    /\ ~Stopped
    /\ Len(reads) >= 1
    /\ pc = "error"

\* C13: the step in which a read fails writes nothing and ends the command,
\* and after it nothing happens any more: no read, no output, and what was
\* written stays.
C13_FailureAborts ==
    [][/\ (err = "none" /\ err' # "none")
            => (pc' = "error" /\ out' = out /\ writes' = writes)
       /\ (err # "none")
            => (/\ pc' = pc
                /\ out' = out
                /\ writes' = writes
                /\ request' = request
                /\ resp_status' = resp_status
                /\ follow_offset' = follow_offset
                /\ err' = err)]_vars

\* C13 witness: a poll failed after earlier polls had written appended bytes.
C13_Witness ==
    /\ pc = "error"
    /\ Stopped
    /\ follow
    /\ Len(fw_text) >= 1
    /\ resp_status = 500
    /\ out = bw_text \o fw_text

\* C14: once the follower runs and no read has failed, control is in the
\* poll loop, never at an end; every sleep ends in a new read being due, and
\* every read that is due is issued.
C14_FollowNeverExits ==
    /\ []((follow /\ Stopped /\ err = "none") => pc \in {"follow_read", "follow_sleep"})
    /\ ((pc = "follow_sleep") ~> (pc = "follow_read"))
    /\ ((pc = "follow_read") ~> (pc \in {"follow_sleep", "error"}))

\* C14 witness: the follower sleeps after a poll that found nothing, having
\* written data in an earlier poll.
C14_Witness ==
    /\ pc = "follow_sleep"
    /\ Len(fw_text) >= 1
    /\ HasParam(request, "offset")
    /\ ParamValue(request, "offset") = follow_offset

\* C15: the follower runs and reads only after tail_backwards has written
\* its output and stopped, and only with follow set; until then every
\* request is one of tail_backwards; without follow the command ends after the
\* emission, and the last request stays the last read of the walk.
C15_FollowAfterBackward ==
    /\ (pc \in {"follow_read", "follow_sleep"} \/ follow_offset # None
            \/ Len(TextsBy("tail_follow")) > 0)
          => (/\ Stopped
              /\ follow
              /\ Len(TextsBy("tail_backwards")) >= 1
              /\ IsPrefix(bw_text, out))
    /\ (~Stopped /\ Len(reads) > 0)
          => request = Params(LastRead.offset, LastRead.length)
    /\ (Stopped /\ ~follow)
          => (/\ pc = "done"
              /\ err = "none"
              /\ follow_offset = None
              /\ request = Params(LastRead.offset, LastRead.length)
              /\ out = bw_text)
    /\ (pc = "done") => (~follow /\ Stopped /\ ~ENABLED Next)

\* C15 witness: the command ended without follow although the file had
\* grown.
C15_Witness ==
    /\ pc = "done"
    /\ ~follow
    /\ Len(grown) >= 1
    /\ Len(reads) >= 2

\* C16: exactly one request is sent without offset and length, the first
\* one; every later request carries both; file_size is the size of the file
\* at that fetch and never changes; the walk starts from it and the follower
\* starts at it.
C16_SizeFetchedOnce ==
    /\ [](/\ size_fetches = (IF resp_status = None THEN 0 ELSE 1)
          /\ (resp_status # None /\ Len(reads) = 0)
                => (~HasParam(request, "offset") /\ ~HasParam(request, "length"))
          /\ (Len(reads) > 0)
                => (HasParam(request, "offset") /\ HasParam(request, "length"))
          /\ (file_size # None) => (file_size >= 0 /\ file_size <= Len(file))
          /\ (Len(reads) > 0) => (reads[1].offset + reads[1].length = file_size)
          /\ (follow_offset # None) => (follow_offset - Len(fw_text) = file_size))
    /\ [][/\ (file_size = None /\ file_size' # None) => (file_size' = Len(file))
          /\ (file_size # None) => (file_size' = file_size)]_vars

\* C16 witness: the follower polls at offset file_size after a walk of
\* several windows, during which the file grew.
C16_Witness ==
    /\ pc = "follow_sleep"
    /\ Len(reads) >= 2
    /\ Len(grown) >= 1
    /\ fw_text = <<>>
    /\ ParamValue(request, "offset") = file_size
    /\ ParamValue(request, "length") = CHUNK_SIZE

\* C17: with more than one uuid or more than one path the command ends with
\* the invalid-argument error and no request was sent, nothing was read and
\* nothing was written.
C17_InvalidArgument ==
    (Len(uuids) > 1 \/ Len(paths) > 1)
        => /\ pc \in {"tail", "error"}
           /\ (pc = "error") => (err = "invalid_argument" /\ Len(message) = 1)
           /\ request = {}
           /\ resp_status = None
           /\ size_fetches = 0
           /\ reads = <<>>
           /\ file_size = None
           /\ out = <<>>
           /\ writes = <<>>

\* C17 witness: one uuid and two paths were given, and the command has ended.
C17_Witness ==
    /\ pc = "error"
    /\ Len(uuids) = 1
    /\ Len(paths) = 2
    /\ message = <<"You can only provide a single path.">>

\* C18: the stream is the concatenation of the texts passed to the sink, the
\* backward tail's text first and the followed data right after it, verbatim;
\* the backward tail's text ends with the delimiter exactly when the content
\* does.
C18_SinkAddsNothing ==
    /\ out = Concat([i \in 1..Len(writes) |-> writes[i].text])
    /\ out = bw_text \o fw_text
    /\ Stopped => (EndsWithDelimiter(bw_text) <=> EndsWithDelimiter(snapshot))
    /\ (Len(fw_text) > 0)
          => (SubSeq(out, Len(bw_text) + 1, Len(out)) = SubSeq(grown, 1, Len(fw_text)))

\* C18 witness: followed data stands right after a backward tail, written in
\* three pieces, of a content without a trailing delimiter.
C18_Witness ==
    /\ stop = "B"
    /\ Len(TextsBy("tail_backwards")) = 3
    /\ Len(snapshot) > 0
    /\ ~EndsWithDelimiter(snapshot)
    /\ Len(fw_text) >= 1

\* C19: every iteration that does not stop was at an offset above 0 and
\* moves to a strictly smaller offset, not below 0; and a walk whose read is
\* due ends, by a stop condition or by a failed read.
C19_BackwardTerminates ==
    /\ [][(pc = "bw_check" /\ pc' = "bw_read")
             => (offset > 0 /\ offset' < offset /\ offset' >= 0)]_vars
    /\ ((pc = "bw_read") ~> (Stopped \/ pc = "error"))

\* C19 witness: a walk of three windows has stopped at offset 0.
C19_Witness ==
    /\ Stopped
    /\ offset = 0
    /\ Len(reads) >= 3

\* C20: the partial line buffer holds no delimiter, and no entry of the line
\* buffer does.
C20_NoDelimiterInBuffers ==
    /\ ~HasDelimiter(partial_line_buffer)
    /\ \A i \in 1..Len(line_buffer) : ~HasDelimiter(line_buffer[i])

\* C20 witness: after the split of a later iteration, both buffers hold
\* text.
C20_Witness ==
    /\ pc = "bw_check"
    /\ Len(reads) >= 2
    /\ Len(partial_line_buffer) >= 1
    /\ Len(line_buffer) >= 1
    /\ \E i \in 1..Len(line_buffer) : Len(line_buffer[i]) >= 1

\* content[a, b): the bytes of the file at offsets a .. b - 1.
Content(a, b) == SubSeq(file, a + 1, b)

\* What the two buffers stand for: the partial line alone when no line is
\* buffered, else the partial line, a delimiter and the buffered lines joined
\* by the delimiter.
Buffered ==
    IF Len(line_buffer) = 0
    THEN partial_line_buffer
    ELSE partial_line_buffer \o <<LINE_DELIMITER>> \o Join(line_buffer)

\* C21: after the split step of an iteration the buffers, the line buffer
\* taken in its order, reproduce content[offset, file_size); the check that
\* follows leaves them alone, so they still do at the offset of the last read.
C21_BuffersReproduceContent ==
    /\ (pc = "bw_check") => (Buffered = Content(offset, file_size))
    /\ (Len(reads) > 0 /\ LastRead.exc = "none")
          => (Buffered = Content(LastRead.offset, file_size))

\* C21 witness: a later iteration put a line in front of a different line
\* buffered before.
C21_Witness ==
    /\ pc = "bw_check"
    /\ Len(reads) >= 3
    /\ Len(line_buffer) >= 2
    /\ line_buffer[1] # line_buffer[2]

\* The printable count of a line buffer: a last entry that is empty is not
\* counted.
Printable(lb) ==
    IF Len(lb) > 0 /\ lb[Len(lb)] = <<>> THEN Len(lb) - 1 ELSE Len(lb)

\* The trailing k entries of lb, for k <= Len(lb).
Trailing(lb, k) == [i \in 1..k |-> lb[Len(lb) - k + i]]

\* The walk has checked its stop conditions at least once and goes on.
WalkGoesOn == pc = "bw_read" /\ Len(reads) > 0

\* C22: the walk stopped by condition A exactly when the line buffer was not
\* empty and its printable count had reached n, and then wrote one text, the
\* trailing n entries (n + 1 when the last entry is empty) joined by the
\* delimiter; a walk that goes on, or stopped by condition B, had a
\* printable count below n or no line, and condition A wrote nothing.
C22_StopConditionA ==
    /\ (stop = "A")
          => (/\ Len(line_buffer) > 0
              /\ Printable(line_buffer) >= num_lines_to_print
              /\ LET k == IF line_buffer[Len(line_buffer)] = <<>>
                          THEN num_lines_to_print + 1
                          ELSE num_lines_to_print
                 IN  /\ k <= Len(line_buffer)
                     /\ TextsBy("tail_backwards")
                            = <<[by |-> "tail_backwards",
                                 text |-> Join(Trailing(line_buffer, k))]>>)
    /\ (WalkGoesOn \/ stop = "B")
          => (Len(line_buffer) = 0 \/ Printable(line_buffer) < num_lines_to_print)
    /\ WalkGoesOn => (writes = <<>> /\ out = <<>>)

\* C22 witness: condition A fired on a line buffer with an empty last entry
\* and more entries than it printed.
C22_Witness ==
    /\ stop = "A"
    /\ line_buffer[Len(line_buffer)] = <<>>
    /\ Len(line_buffer) > num_lines_to_print + 1

\* C23: the walk stopped by condition B only at offset 0 and with condition
\* A not met, and then wrote the partial line buffer first and, only when
\* the line buffer is not empty, one delimiter and the line buffer joined by
\* the delimiter; a walk that goes on was above offset 0, wrote nothing and
\* has its buffers as the split left them.
C23_StopConditionB ==
    /\ (stop = "B")
          => (/\ offset = 0
              /\ (Len(line_buffer) = 0
                    \/ Printable(line_buffer) < num_lines_to_print)
              /\ TextsBy("tail_backwards")
                    = IF Len(line_buffer) > 0
                      THEN <<[by |-> "tail_backwards", text |-> partial_line_buffer],
                             [by |-> "tail_backwards", text |-> <<LINE_DELIMITER>>],
                             [by |-> "tail_backwards", text |-> Join(line_buffer)]>>
                      ELSE <<[by |-> "tail_backwards", text |-> partial_line_buffer]>>)
    /\ WalkGoesOn
          => (/\ LastRead.offset > 0
              /\ writes = <<>>
              /\ stop = "none"
              /\ Buffered = Content(LastRead.offset, file_size))

\* C23 witness: condition B fired after several reads with a partial line
\* and buffered lines.
C23_Witness ==
    /\ stop = "B"
    /\ Len(reads) >= 2
    /\ Len(partial_line_buffer) >= 1
    /\ Len(line_buffer) >= 1

\* C24: the first read is at max(file_size - WINDOW, 0) with length
\* file_size - offset, each later read at max(previous offset - WINDOW, 0)
\* with length previous offset - offset; every read has 0 <= offset,
\* length <= WINDOW, offset + length <= file_size, and length >= 1 unless
\* file_size is 0; the window of a read that is due obeys the same.
C24_WindowArithmetic ==
    /\ \A i \in ReadIndices :
          /\ reads[i].offset >= 0
          /\ reads[i].length <= CHUNK_SIZE
          /\ reads[i].offset + reads[i].length <= file_size
          /\ (file_size # 0) => (reads[i].length >= 1)
          /\ (i = 1) => (/\ reads[i].offset = Max(file_size - CHUNK_SIZE, 0)
                         /\ reads[i].length = file_size - reads[i].offset)
          /\ (i > 1) => (/\ reads[i].offset = Max(reads[i - 1].offset - CHUNK_SIZE, 0)
                         /\ reads[i].length = reads[i - 1].offset - reads[i].offset)
    /\ (pc = "bw_read")
          => (/\ offset >= 0
              /\ length <= CHUNK_SIZE
              /\ offset + length <= file_size
              /\ (file_size # 0) => (length >= 1))

\* C24 witness: the second read of a walk is shorter than the window.
C24_Witness ==
    /\ Len(reads) = 2
    /\ reads[2].length >= 1
    /\ reads[2].length < CHUNK_SIZE
    /\ reads[2].offset = 0

\* C25: with file_size below WINDOW the walk makes at most one read, the
\* read is of [0, file_size), no further read is due after it, and the walk
\* has stopped after exactly one read.
C25_SmallFileOneIteration ==
    (file_size # None /\ file_size < CHUNK_SIZE)
        => /\ Len(reads) <= 1
           /\ (Len(reads) = 1)
                 => (/\ reads[1].offset = 0
                     /\ reads[1].length = file_size
                     /\ pc # "bw_read")
           /\ (pc = "bw_read") => (offset = 0 /\ length = file_size)
           /\ Stopped => (Len(reads) = 1)
           /\ (pc \in {"done", "follow_read", "follow_sleep"}) => Stopped

\* C25 witness: a file of two lines, smaller than the window, was read once
\* and the walk stopped.
C25_Witness ==
    /\ Stopped
    /\ file_size >= 2
    /\ file_size < CHUNK_SIZE
    /\ Len(reads) = 1
    /\ NumLines(snapshot) >= 2

\* C26: a poll asks for [cursor, cursor + WINDOW); when it succeeds, the
\* bytes of that range that exist are written verbatim and the cursor
\* advances by their number, and when there are none nothing is written and
\* the cursor stays; a failed poll changes neither; no other step moves the
\* cursor, which never decreases.
C26_FollowCursor ==
    [][/\ (pc = "follow_read" /\ pc' # pc)
            => (/\ request' = {<<"path", os_path_join(sandbox_dir, path)>>,
                               <<"offset", follow_offset>>,
                               <<"length", CHUNK_SIZE>>}
                /\ (pc' = "follow_sleep")
                      => LET data == Content(follow_offset,
                                             Min(follow_offset + CHUNK_SIZE, Len(file)))
                         IN  /\ out' = out \o data
                             /\ follow_offset' = follow_offset + Len(data)
                             /\ writes' = IF Len(data) = 0 THEN writes
                                          ELSE Append(writes, [by |-> "tail_follow",
                                                               text |-> data])
                /\ (pc' = "error") => UNCHANGED <<out, writes, follow_offset>>)
       /\ (follow_offset # None)
            => (/\ follow_offset' >= follow_offset
                /\ (pc # "follow_read") => (follow_offset' = follow_offset))]_vars

\* C26 witness: a poll brought back fewer bytes than the window.
C26_Witness ==
    /\ pc = "follow_sleep"
    /\ Len(TextsBy("tail_follow")) >= 1
    /\ Len(writes[Len(writes)].text) < CHUNK_SIZE
    /\ writes[Len(writes)].by = "tail_follow"
    /\ follow_offset = file_size + Len(fw_text)

\* C27: a poll, the only step of the command when a read is due, is followed
\* by the sleep whether it found data or not (or by the end of the command
\* when it failed), never by the next read; the sleep sends no request and
\* writes nothing, and it ends in the next read being due.
C27_SleepBetweenReads ==
    [][/\ (pc = "follow_read" /\ file' = file) => (pc' \in {"follow_sleep", "error"})
       /\ (pc = "follow_sleep")
            => UNCHANGED <<request, resp_status, error_log, size_fetches,
                           out, writes, follow_offset>>
       /\ (pc = "follow_sleep" /\ pc' # pc) => (pc' = "follow_read")]_vars

\* C27 witness: the last poll found data, the sleep has ended and the next
\* read is due.
C27_Witness ==
    /\ pc = "follow_read"
    /\ Len(fw_text) >= 1
    /\ HasParam(request, "offset")
    /\ ParamValue(request, "offset") < follow_offset
    /\ ParamValue(request, "offset") >= file_size

\* The follower has written every byte appended since the size fetch.
CaughtUp ==
    /\ follow_offset # None
    /\ follow_offset = Len(file)
    /\ fw_text = grown

\* C28: every write of the follower holds between 1 and WINDOW bytes, so
\* writing what it wrote took at least ceil(bytes / WINDOW) polls; a follower
\* that has caught up writes nothing and stays where it is as long as the
\* file does not grow; and the command either ends (without follow, or by a
\* failed read) or the follower catches up with the file for good.
C28_FollowCatchesUp ==
    /\ [](/\ \A i \in 1..Len(TextsBy("tail_follow")) :
                Len(TextsBy("tail_follow")[i].text) \in 1..CHUNK_SIZE
          /\ Len(TextsBy("tail_follow")) >= Ceil(Len(fw_text), CHUNK_SIZE))
    /\ [][(CaughtUp /\ file' = file)
             => (out' = out /\ follow_offset' = follow_offset)]_vars
    /\ (<>[](pc \in {"follow_read", "follow_sleep"} /\ CaughtUp)
          \/ <>(pc \in {"done", "error"}))

\* C28 witness: the follower has caught up, in two polls, with a file that
\* grew by two bytes.
C28_Witness ==
    /\ pc = "follow_sleep"
    /\ CaughtUp
    /\ Len(grown) = 2
    /\ Len(TextsBy("tail_follow")) = 2

\* C29 as stated: 404 gives the not-found error, every other status outside
\* 2xx the transport error, and every 2xx status returns.
C29_Original ==
    /\ (resp_status = 404) => (err = "not_found")
    /\ (resp_status # None /\ ~IsSuccess(resp_status) /\ resp_status # 404)
          => (err = "agent_error")
    /\ (resp_status # None /\ IsSuccess(resp_status)) => (err = "none")

\* C29 as amended: 404 gives the not-found error, every other status that
\* is not 200, the other 2xx statuses included, gives the transport error,
\* and status 200 returns the body: the size for the size fetch, the bytes
\* of the range asked for for a read of the walk.
C29_Classification ==
    /\ (resp_status = 404) => (err = "not_found" /\ pc = "error")
    /\ (resp_status \notin {None, 200, 404}) => (err = "agent_error" /\ pc = "error")
    /\ (resp_status = 200)
          => (/\ err = "none"
              /\ pc # "error"
              /\ file_size # None
              /\ (~Stopped /\ Len(reads) > 0)
                    => (/\ LastRead.exc = "none"
                        /\ LastRead.data = Content(LastRead.offset,
                                                   LastRead.offset + LastRead.length)))

\* C29 witness: the agent answered a poll of the follower with 204.
C29_Witness ==
    /\ resp_status = 204
    /\ pc = "error"
    /\ err = "agent_error"
    /\ Stopped
    /\ follow

\* The number of delimiters in s.
Delimiters(s) == Cardinality({i \in 1..Len(s) : s[i] = LINE_DELIMITER})

\* C30: the split of the buffer of an iteration (the data read, then the
\* partial line buffer) gives one piece more than the buffer has delimiters,
\* no piece holds a delimiter, and the pieces joined by the delimiter are the
\* buffer; with more than one piece the first becomes the partial line
\* buffer and the others go in front of the line buffer, else the partial
\* line buffer is the whole buffer and the line buffer stays.
C30_SplitAtEveryDelimiter ==
    [][(pc = "bw_read" /\ pc' = "bw_check")
          => LET buf    == reads'[Len(reads')].data \o partial_line_buffer
                 pieces == Split(buf)
             IN  /\ Len(pieces) = Delimiters(buf) + 1
                 /\ \A i \in 1..Len(pieces) : ~HasDelimiter(pieces[i])
                 /\ Join(pieces) = buf
                 /\ IF Len(pieces) > 1
                    THEN /\ partial_line_buffer' = pieces[1]
                         /\ line_buffer' = Tail(pieces) \o line_buffer
                    ELSE /\ partial_line_buffer' = buf
                         /\ line_buffer' = line_buffer]_vars

\* C30 witness: one read brought a buffer with two delimiters, cut in three
\* pieces of which the second is not empty.
C30_Witness ==
    /\ pc = "bw_check"
    /\ Len(reads) = 1
    /\ Delimiters(LastRead.data) = 2
    /\ Len(line_buffer) = 2
    /\ line_buffer[1] # <<>>

\* C31: the text tail_backwards has written when it returns (the follower
\* has written nothing yet) is the text the function writes on the same
\* content and count with any window size.
C31_WindowIndependent ==
    (Stopped /\ Len(writes) = Len(TextsBy("tail_backwards")))
        => \A window \in 1..MaxWindow :
              out = tail_backwards(snapshot, window, num_lines_to_print)

\* C31 witness: a walk of three reads has stopped on a content that a larger
\* window reads at once.
C31_Witness ==
    /\ Stopped
    /\ CHUNK_SIZE = 1
    /\ Len(reads) = 3
    /\ NumLines(snapshot) >= 2
    /\ pc = "done"

\* C32: tail_backwards writes in the one step in which it stops, the stop
\* condition never changes afterwards, and nothing is added to what it wrote;
\* a walk at offset 0 whose line buffer holds enough lines has stopped by
\* condition A and written one text shorter than the content.
C32_OneStopCondition ==
    /\ [](Stopped
            => (/\ stop \in {"A", "B"}
                /\ Len(TextsBy("tail_backwards")) = (IF stop = "A" THEN 1
                                                     ELSE IF Len(line_buffer) > 0
                                                     THEN 3 ELSE 1)
                /\ (offset = 0 /\ Len(line_buffer) > 0
                        /\ Printable(line_buffer) >= num_lines_to_print)
                      => (stop = "A" /\ Len(bw_text) < Len(snapshot))))
    /\ [][/\ (stop = "none" /\ writes' # writes) => (stop' # "none")
          /\ (stop = "none" /\ stop' # "none") => (writes' # writes)
          /\ (stop # "none")
                => (/\ stop' = stop
                    /\ SelectSeq(writes', LAMBDA w : w.by = "tail_backwards")
                          = TextsBy("tail_backwards"))]_vars

\* C32 witness: at offset 0, after several reads, condition A fired.
C32_Witness ==
    /\ stop = "A"
    /\ offset = 0
    /\ Len(reads) >= 2
    /\ Len(bw_text) >= 1
    /\ Len(bw_text) < Len(snapshot)

\* C33: the walk stopped by condition A exactly when the content holds more
\* than n lines; with n lines or fewer it stopped by condition B and wrote the
\* whole content.
C33_StopAIffMoreLines ==
    Stopped
        => /\ (stop = "A") <=> (NumLines(snapshot) > num_lines_to_print)
           /\ (NumLines(snapshot) <= num_lines_to_print)
                 => (stop = "B" /\ bw_text = snapshot)

\* C33 witness: a content of exactly n lines, n >= 2, read in several
\* windows, was written whole by condition B.
C33_Witness ==
    /\ stop = "B"
    /\ num_lines_to_print >= 2
    /\ NumLines(snapshot) = num_lines_to_print
    /\ Len(reads) >= 2

\* C34: a read of the walk is issued only while the printable count of the
\* line buffer is below n, and once the count has reached n no read of the
\* walk is due: the walk is at its check or has stopped by condition A.
C34_NoReadOnceEnoughLines ==
    /\ [][(reads' # reads) => (Printable(line_buffer) < num_lines_to_print)]_vars
    /\ []((Printable(line_buffer) >= num_lines_to_print)
            => (pc # "bw_read" /\ (pc # "bw_check" => stop = "A")))

\* C34 witness: the walk stopped by condition A above offset 0, with bytes
\* of the file left unread.
C34_Witness ==
    /\ stop = "A"
    /\ offset > 0
    /\ Len(reads) >= 2
    /\ Printable(line_buffer) = num_lines_to_print

\* C35: the request of a read of the walk carries the offset and the length
\* of the window, zeros included, so it is not counted as a size fetch and
\* the agent answers with the bytes of the window: none for the zero-length
\* read of an empty file, even when the file has grown.
C35_ZeroIsSent ==
    (Len(reads) > 0)
        => /\ size_fetches = 1
           /\ (~Stopped)
                 => (request = {<<"path", os_path_join(sandbox_dir, path)>>,
                                <<"offset", LastRead.offset>>,
                                <<"length", LastRead.length>>})
           /\ \A i \in ReadIndices :
                 (reads[i].exc = "none")
                    => (/\ Len(reads[i].data) = reads[i].length
                        /\ reads[i].data = Content(reads[i].offset,
                                                   reads[i].offset + reads[i].length))
           /\ (file_size = 0) => (reads[1].offset = 0 /\ reads[1].length = 0)

\* C35 witness: the zero-length read of a file that was empty at the size
\* fetch and has grown since.
C35_Witness ==
    /\ file_size = 0
    /\ Len(grown) >= 1
    /\ Len(reads) = 1
    /\ pc = "bw_check"
    /\ request = {<<"path", os_path_join(sandbox_dir, path)>>,
                  <<"offset", 0>>, <<"length", 0>>}
    /\ LastRead.data = <<>>

=============================================================================
